---- MODULE Spec2Model ----
(***************************************************************************)
(* Model of the hypothesis tester's core: the schema type oracle, the      *)
(* type-aware test router and the covariate suggester of                   *)
(* src/hypotest/router.py, and the relation classifier, variable extractor *)
(* and hypothesis builder of src/hypotest/hypotheses.py.                   *)
(*                                                                         *)
(* All of these are pure functions.  Each is an operator here, computed as *)
(* the code computes it; a specification draws the arguments in Init and   *)
(* one action per function applies it and stores what it returned.         *)
(*                                                                         *)
(* unique_frac is a binary float in the code.  It is modelled as the       *)
(* numerator of a fraction over UFDen = 2^UFBits, so that every value and  *)
(* every product unique_frac * rows of the model is exactly representable  *)
(* as a float and the model's exact arithmetic is the code's arithmetic.   *)
(***************************************************************************)
EXTENDS Integers, Sequences, FiniteSets, TLC

VARIABLES question, relation, variables, schema, called, routed, covar, hyp, guessed

vars == <<question, relation, variables, schema, called, routed, covar, hyp, guessed>>

(***************************************************************************)
(* Bounds of the model.                                                    *)
(***************************************************************************)
MaxVars == 3      \* longest variables list drawn
MaxRows == 5      \* largest schema.rows drawn
UFBits == 1       \* unique_frac is drawn from {0, 1/2^UFBits, ..., 1}

MaxFrags == 3     \* most fragments a drawn question is made of

UFDen == 2 ^ UFBits

(***************************************************************************)
(* router.py, lines 4-6: the dtype classes.                                *)
(***************************************************************************)
NUM_DTYPES == {"int", "float"}
CAT_DTYPES == {"bool", "category", "string"}
DATETIME_DTYPES == {"datetime"}

\* The dtypes infer_schema's simplify_dtype produces.
DTYPES == {"int", "float", "bool", "category", "datetime", "string"}

\* 0.05, the low-cardinality threshold of _is_categorical, as 1 / LowCardInv.
LowCardInv == 20

(***************************************************************************)
(* The inputs drawn.                                                       *)
(***************************************************************************)
\* Names that may be columns of the schema, and one name that never is.
ColNames == {"total_charges", "winner"}
VarNames == ColNames \cup {"method"}

RELATIONS == {"association", "group_mean_diff", "proportion_diff"}
RelationTags == RELATIONS \cup {"weird_relation"}

ColumnMetas == [dtype : DTYPES, unique_frac : 0..UFDen]

Schemas ==
  UNION { [columns : [D -> ColumnMetas], rows : 0..MaxRows] : D \in SUBSET ColNames }

VarLists == UNION { [1..n -> VarNames] : n \in 0..MaxVars }

\* A Python dict with no entries.
EmptyDict == [k \in {} |-> ""]

(***************************************************************************)
(* router.py, lines 10-35: the schema type oracle.                         *)
(***************************************************************************)
_col_meta(s, col) ==
  IF col \in DOMAIN s.columns THEN s.columns[col] ELSE EmptyDict

_dtype(s, col) ==
  LET m == _col_meta(s, col)
  IN  IF "dtype" \in DOMAIN m THEN m.dtype ELSE "unknown"

\* The numerator of the float over UFDen; the default 1.0 is UFDen / UFDen.
_unique_frac(s, col) ==
  LET m == _col_meta(s, col)
  IN  IF "unique_frac" \in DOMAIN m THEN m.unique_frac ELSE UFDen

_is_numeric(s, col) == _dtype(s, col) \in NUM_DTYPES

_is_datetime(s, col) == _dtype(s, col) \in DATETIME_DTYPES

_is_categorical(s, col) ==
  LET dt == _dtype(s, col)
  IN  IF dt \in CAT_DTYPES
      THEN TRUE
      ELSE dt = "string" /\ _unique_frac(s, col) * LowCardInv < UFDen

Max(a, b) == IF a >= b THEN a ELSE b

\* PyRound with a tie always going up, as C's round() does.
PyRound_HalfUp(num, den) ==
  LET q == num \div den
      r == num % den
  IN  IF 2 * r < den THEN q ELSE q + 1

\* Python 3's round() of the float num / den (num >= 0): to the nearest
\* integer, a tie going to the even one.
PyRound(num, den) ==
  LET q == num \div den
      r == num % den
  IN  IF 2 * r < den THEN q
      ELSE IF 2 * r > den THEN q + 1
      ELSE IF q % 2 = 0 THEN q ELSE q + 1

_group_count_hint(s, col, n_rows) ==
  LET uf == _unique_frac(s, col)
  IN  Max(1, PyRound(uf * Max(n_rows, 1), UFDen))

(***************************************************************************)
(* Strings built by the code.  An f-string is the sequence of its parts,   *)
(* literal text and formatted values alternating; a constant string is a   *)
(* sequence of one part.  An integer is formatted by ToString.             *)
(***************************************************************************)
Decision(test, reason, notes) ==
  [suggested_test |-> test, reason |-> reason, notes |-> notes]

(***************************************************************************)
(* router.py, lines 39-149: route_test.                                    *)
(***************************************************************************)
AssociationBranch(s, x, y, n_rows) ==
  LET x_num == _is_numeric(s, x)
      y_num == _is_numeric(s, y)
      x_cat == _is_categorical(s, x)
      y_cat == _is_categorical(s, y)
  IN  IF x_num /\ y_num
      THEN Decision("spearman_correlation",
                    <<"Both numeric; monotonic association requested">>,
                    [x_dtype |-> _dtype(s, x), y_dtype |-> _dtype(s, y)])
      ELSE IF (x_cat /\ y_num) \/ (x_num /\ y_cat)
      THEN LET grp == IF x_cat /\ y_num THEN x ELSE y
               metric == IF x_cat /\ y_num THEN y ELSE x
               k == _group_count_hint(s, grp, n_rows)
               test == IF k > 2 THEN "kruskal_wallis" ELSE "mann_whitney_or_welch_t"
           IN  Decision(test,
                        <<grp, " is categorical (k~", ToString(k), "); ", metric, " numeric">>,
                        [groups_est |-> k])
      ELSE IF x_cat /\ y_cat
      THEN Decision("chi_square",
                    <<"Both categorical; association via contingency">>,
                    EmptyDict)
      ELSE Decision("unknown_association",
                    <<"Unrecognized type combo for association">>,
                    [x |-> _dtype(s, x), y |-> _dtype(s, y)])

\* GroupMeanDiffBranch whose second group branch repeats the first branch's
\* reason, so that it names y as the metric too.
GroupMeanDiffBranch_CopiedReason(s, x, y, n_rows) ==
  LET x_num == _is_numeric(s, x)
      y_num == _is_numeric(s, y)
      x_cat == _is_categorical(s, x)
      y_cat == _is_categorical(s, y)
  IN  IF x_cat /\ y_num
      THEN LET k == _group_count_hint(s, x, n_rows)
               test == IF k > 2 THEN "anova" ELSE "welch_t_or_mann_whitney"
           IN  Decision(test,
                        <<"group=", x, " (k~", ToString(k), "), metric=", y>>,
                        [groups_est |-> k])
      ELSE IF y_cat /\ x_num
      THEN LET k == _group_count_hint(s, y, n_rows)
               test == IF k > 2 THEN "anova" ELSE "welch_t_or_mann_whitney"
           IN  Decision(test,
                        <<"group=", y, " (k~", ToString(k), "), metric=", y>>,
                        [groups_est |-> k])
      ELSE Decision("unknown_group_mean_diff",
                    <<"Need one categorical (group) and one numeric (metric)">>,
                    [x |-> _dtype(s, x), y |-> _dtype(s, y)])

\* GroupMeanDiffBranch that takes the group from the first position only.
GroupMeanDiffBranch_FirstIsGroup(s, x, y, n_rows) ==
  LET y_num == _is_numeric(s, y)
      x_cat == _is_categorical(s, x)
  IN  IF x_cat /\ y_num
      THEN LET k == _group_count_hint(s, x, n_rows)
               test == IF k > 2 THEN "anova" ELSE "welch_t_or_mann_whitney"
           IN  Decision(test,
                        <<"group=", x, " (k~", ToString(k), "), metric=", y>>,
                        [groups_est |-> k])
      ELSE Decision("unknown_group_mean_diff",
                    <<"Need one categorical (group) and one numeric (metric)">>,
                    [x |-> _dtype(s, x), y |-> _dtype(s, y)])

GroupMeanDiffBranch(s, x, y, n_rows) ==
  LET x_num == _is_numeric(s, x)
      y_num == _is_numeric(s, y)
      x_cat == _is_categorical(s, x)
      y_cat == _is_categorical(s, y)
  IN  IF x_cat /\ y_num
      THEN LET k == _group_count_hint(s, x, n_rows)
               test == IF k > 2 THEN "anova" ELSE "welch_t_or_mann_whitney"
           IN  Decision(test,
                        <<"group=", x, " (k~", ToString(k), "), metric=", y>>,
                        [groups_est |-> k])
      ELSE IF y_cat /\ x_num
      THEN LET k == _group_count_hint(s, y, n_rows)
               test == IF k > 2 THEN "anova" ELSE "welch_t_or_mann_whitney"
           IN  Decision(test,
                        <<"group=", y, " (k~", ToString(k), "), metric=", x>>,
                        [groups_est |-> k])
      ELSE Decision("unknown_group_mean_diff",
                    <<"Need one categorical (group) and one numeric (metric)">>,
                    [x |-> _dtype(s, x), y |-> _dtype(s, y)])

ProportionDiffBranch(s, x, y) ==
  LET x_cat == _is_categorical(s, x)
      y_cat == _is_categorical(s, y)
  IN  IF x_cat /\ y_cat
      THEN Decision("chi_square",
                    <<"Proportion/rate language with two categorical variables">>,
                    EmptyDict)
      ELSE Decision("unknown_proportion_diff",
                    <<"Proportion difference expects categorical variables">>,
                    [x |-> _dtype(s, x), y |-> _dtype(s, y)])

\* RelationRouting without the fallback: the last branch takes every tag
\* that is left.
RelationRouting_NoFallback(rel, s, x, y, n_rows) ==
  IF rel = "association" THEN AssociationBranch(s, x, y, n_rows)
  ELSE IF rel = "group_mean_diff" THEN GroupMeanDiffBranch(s, x, y, n_rows)
  ELSE ProportionDiffBranch(s, x, y)

\* Lines 75-149: the branch on the relation tag, the fallback last.
RelationRouting(rel, s, x, y, n_rows) ==
  IF rel = "association" THEN AssociationBranch(s, x, y, n_rows)
  ELSE IF rel = "group_mean_diff" THEN GroupMeanDiffBranch(s, x, y, n_rows)
  ELSE IF rel = "proportion_diff" THEN ProportionDiffBranch(s, x, y)
  ELSE Decision("unknown", <<"Unhandled relation: ", rel>>, EmptyDict)

\* VarsOk without the filter.
VarsOk_Unfiltered(vs, s) == vs

\* Line 50: the variables that are columns of the schema, in their order.
VarsOk(vs, s) == SelectSeq(vs, LAMBDA v : v \in DOMAIN s.columns)

\* route_test testing only x for a datetime.
route_test_DatetimeXOnly(rel, vs, s) ==
  LET n_rows == s.rows
      vars_ok == VarsOk(vs, s)
  IN  IF Len(vars_ok) < 2
      THEN Decision("none", <<"Need at least two valid variables in schema">>, EmptyDict)
      ELSE
        LET x == vars_ok[1]
            y == vars_ok[2]
        IN  IF _is_datetime(s, x)
            THEN Decision("unsupported_datetime",
                          <<"Datetime detected; convert to derived numeric/categorical first">>,
                          [x_dtype |-> _dtype(s, x), y_dtype |-> _dtype(s, y)])
            ELSE RelationRouting(rel, s, x, y, n_rows)

route_test(rel, vs, s) ==
  LET n_rows == s.rows
      vars_ok == VarsOk(vs, s)
  IN  IF Len(vars_ok) < 2
      THEN Decision("none", <<"Need at least two valid variables in schema">>, EmptyDict)
      ELSE
        LET x == vars_ok[1]
            y == vars_ok[2]
        IN  IF _is_datetime(s, x) \/ _is_datetime(s, y)
            THEN Decision("unsupported_datetime",
                          <<"Datetime detected; convert to derived numeric/categorical first">>,
                          [x_dtype |-> _dtype(s, x), y_dtype |-> _dtype(s, y)])
            ELSE RelationRouting(rel, s, x, y, n_rows)

(***************************************************************************)
(* router.py, lines 153-177: covariate_suggestion.                         *)
(***************************************************************************)
Suggestion(suggestion, reason) == [suggestion |-> suggestion, reason |-> reason]

\* covariate_suggestion taking the first variable as the outcome.
covariate_suggestion_FirstOutcome(rel, vs, s) ==
  IF Len(vs) < 2
  THEN Suggestion("none", <<"Need >=2 variables">>)
  ELSE
    LET x == vs[1]
        y == vs[2]
        x_num == _is_numeric(s, x)
        y_num == _is_numeric(s, y)
        outcome == x
    IN  IF rel = "association" /\ x_num /\ y_num
        THEN Suggestion("ols", <<"Both numeric; model y ~ x + covariates">>)
        ELSE IF rel \in {"group_mean_diff", "proportion_diff"}
                /\ _is_categorical(s, outcome)
        THEN Suggestion("logistic",
                        <<"Categorical outcome (", outcome,
                          "); consider logit with covariates">>)
        ELSE Suggestion("none", <<"Bivariate test likely sufficient for MVP">>)

covariate_suggestion(rel, vs, s) ==
  IF Len(vs) < 2
  THEN Suggestion("none", <<"Need >=2 variables">>)
  ELSE
    LET x == vs[1]
        y == vs[2]
        x_num == _is_numeric(s, x)
        y_num == _is_numeric(s, y)
        outcome == y
    IN  IF rel = "association" /\ x_num /\ y_num
        THEN Suggestion("ols", <<"Both numeric; model y ~ x + covariates">>)
        ELSE IF rel \in {"group_mean_diff", "proportion_diff"}
                /\ _is_categorical(s, outcome)
        THEN Suggestion("logistic",
                        <<"Categorical outcome (", outcome,
                          "); consider logit with covariates">>)
        ELSE Suggestion("none", <<"Bivariate test likely sufficient for MVP">>)

(***************************************************************************)
(* hypotheses.py, lines 29-48: build_hypotheses.                           *)
(***************************************************************************)
HypothesisPair(h0, h1) == [H0 |-> h0, H1 |-> h1]

build_hypotheses(rel, vs) ==
  IF rel = "association" /\ Len(vs) >= 2
  THEN LET x == vs[1]
           y == vs[2]
       IN  HypothesisPair(
             <<"There is no monotonic association between ", x, " and ", y, " (rho = 0).">>,
             <<"There is a monotonic association between ", x, " and ", y, " (rho != 0).">>)
  ELSE IF rel = "group_mean_diff" /\ Len(vs) >= 2
  THEN LET grp == vs[1]
           metric == vs[2]
       IN  HypothesisPair(
             <<"The mean of ", metric, " is equal across groups of ", grp, ".">>,
             <<"The mean of ", metric, " differs for at least one group of ", grp, ".">>)
  ELSE IF rel = "proportion_diff" /\ Len(vs) >= 2
  THEN LET grp == vs[1]
           outcome == vs[2]
       IN  HypothesisPair(
             <<"The proportion of ", outcome, " is equal across groups of ", grp, ".">>,
             <<"The proportion of ", outcome, " differs for at least one group of ", grp, ".">>)
  ELSE HypothesisPair(<<"Unable to form hypothesis">>, <<"Unable to form hypothesis">>)

(***************************************************************************)
(* A question is a Python str: the sequence of its characters.             *)
(***************************************************************************)
UPPERCASE == <<"A", "B", "C", "D", "E", "F", "G", "H", "I", "J", "K", "L", "M", "N", "O", "P", "Q", "R", "S", "T", "U", "V", "W", "X", "Y", "Z">>
LOWERCASE == <<"a", "b", "c", "d", "e", "f", "g", "h", "i", "j", "k", "l", "m", "n", "o", "p", "q", "r", "s", "t", "u", "v", "w", "x", "y", "z">>

\* str.lower() on one character, and on a string.
LowerChar(c) ==
  IF \E i \in 1..Len(UPPERCASE) : UPPERCASE[i] = c
  THEN LOWERCASE[CHOOSE i \in 1..Len(UPPERCASE) : UPPERCASE[i] = c]
  ELSE c

Lower(s) == [i \in 1..Len(s) |-> LowerChar(s[i])]

\* Python's `k in s` on strings: k is a contiguous part of s.
In(k, s) ==
  \E i \in 0..(Len(s) - Len(k)) : SubSeq(s, i + 1, i + Len(k)) = k

\* any(k in s for k in keywords)
AnyIn(keywords, s) == \E n \in 1..Len(keywords) : In(keywords[n], s)

(***************************************************************************)
(* hypotheses.py, lines 12-20: guess_relation and its keyword lists.       *)
(***************************************************************************)
ASSOCIATION_KEYWORDS ==
  << <<"c", "o", "r", "r", "e", "l", "a", "t">>,
     <<"a", "s", "s", "o", "c", "i", "a", "t", "i", "o", "n">>,
     <<"r", "e", "l", "a", "t", "e", "d">> >>

DIFFERENCE_KEYWORDS ==
  << <<"d", "i", "f", "f", "e", "r", "e", "n", "c", "e">>,
     <<"h", "i", "g", "h", "e", "r", " ", "t", "h", "a", "n">>,
     <<"l", "o", "w", "e", "r", " ", "t", "h", "a", "n">>,
     <<"g", "r", "e", "a", "t", "e", "r", " ", "t", "h", "a", "n">>,
     <<"l", "e", "s", "s", " ", "t", "h", "a", "n">>,
     <<"c", "o", "m", "p", "a", "r", "e">>,
     <<"d", "i", "f", "f">> >>

PROPORTION_KEYWORDS ==
  << <<"p", "r", "o", "p", "o", "r", "t", "i", "o", "n">>,
     <<"r", "a", "t", "e">>,
     <<"o", "d", "d", "s">>,
     <<"l", "i", "k", "e", "l", "i", "h", "o", "o", "d">> >>

\* guess_relation trying the difference keywords before the association ones.
guess_relation_DifferenceFirst(q) ==
  LET ql == Lower(q)
  IN  IF AnyIn(DIFFERENCE_KEYWORDS, ql) THEN "group_mean_diff"
      ELSE IF AnyIn(ASSOCIATION_KEYWORDS, ql) THEN "association"
      ELSE IF AnyIn(PROPORTION_KEYWORDS, ql) THEN "proportion_diff"
      ELSE "unknown"

guess_relation(q) ==
  LET ql == Lower(q)
  IN  IF AnyIn(ASSOCIATION_KEYWORDS, ql) THEN "association"
      ELSE IF AnyIn(DIFFERENCE_KEYWORDS, ql) THEN "group_mean_diff"
      ELSE IF AnyIn(PROPORTION_KEYWORDS, ql) THEN "proportion_diff"
      ELSE "unknown"

\* The pieces the drawn questions are made of: keywords of each group in
\* upper, mixed and lower case, keywords split over two pieces, and a piece
\* that belongs to no keyword.
Fragments ==
  << <<"C", "O", "R", "R", "E", "L", "A", "T">>,
     <<"r", "e", "l", "a", "t">>,
     <<"e", "d", " ">>,
     <<"D", "i", "f", "f">>,
     <<"l", "e", "s", "s", " ">>,
     <<"t", "h", "a", "n", " ">>,
     <<"R", "a", "t", "e", " ">>,
     <<"o", "d", "d", "s", " ">>,
     <<"a", "g", "e", " ">> >>

RECURSIVE Join(_)
Join(pieces) ==
  IF pieces = <<>> THEN <<>> ELSE Fragments[Head(pieces)] \o Join(Tail(pieces))

Questions ==
  { Join(pieces) : pieces \in UNION { [1..n -> 1..Len(Fragments)] : n \in 0..MaxFrags } }

(***************************************************************************)
(* The state machine: the arguments of a call, the functions that have     *)
(* been called on them, and what each returned.                            *)
(***************************************************************************)
NotCalled == <<>>

NothingCalled ==
  /\ called = {}
  /\ routed = NotCalled
  /\ covar = NotCalled
  /\ hyp = NotCalled
  /\ guessed = NotCalled

\* The calls of the router, the suggester and the hypothesis builder: any
\* relation tag, variables list and schema; no question is involved.
Init ==
  /\ question = <<>>
  /\ relation \in RelationTags
  /\ variables \in VarLists
  /\ schema \in Schemas
  /\ NothingCalled

\* The calls of the relation classifier: any question; the other arguments
\* are those cli_parse starts from without a schema file (hypotheses.py,
\* line 101).
InitQuestion ==
  /\ question \in Questions
  /\ relation = "unknown"
  /\ variables = <<>>
  /\ schema = [columns |-> EmptyDict, rows |-> 0]
  /\ NothingCalled

RouteTest ==
  /\ "route_test" \notin called
  /\ routed' = route_test(relation, variables, schema)
  /\ called' = called \cup {"route_test"}
  /\ UNCHANGED <<question, relation, variables, schema, covar, hyp, guessed>>

CovariateSuggestion ==
  /\ "covariate_suggestion" \notin called
  /\ covar' = covariate_suggestion(relation, variables, schema)
  /\ called' = called \cup {"covariate_suggestion"}
  /\ UNCHANGED <<question, relation, variables, schema, routed, hyp, guessed>>

BuildHypotheses ==
  /\ "build_hypotheses" \notin called
  /\ hyp' = build_hypotheses(relation, variables)
  /\ called' = called \cup {"build_hypotheses"}
  /\ UNCHANGED <<question, relation, variables, schema, routed, covar, guessed>>

GuessRelation ==
  /\ "guess_relation" \notin called
  /\ guessed' = guess_relation(question)
  /\ called' = called \cup {"guess_relation"}
  /\ UNCHANGED <<question, relation, variables, schema, routed, covar, hyp>>

Next == RouteTest \/ CovariateSuggestion \/ BuildHypotheses \/ GuessRelation

\* Every function, in any order, on every drawn call and every drawn question.
Spec == (Init \/ InitQuestion) /\ [][Next]_vars

\* route_test alone, on every drawn call.
SpecRoute == Init /\ [][RouteTest]_vars

\* covariate_suggestion alone.
SpecCovar == Init /\ [][CovariateSuggestion]_vars

\* route_test and covariate_suggestion on the same arguments, as cli_parse
\* (hypotheses.py, lines 102-103) calls them.
SpecRouteCovar == Init /\ [][RouteTest \/ CovariateSuggestion]_vars

\* build_hypotheses and route_test on the same arguments (hypotheses.py,
\* lines 68 and 102).
SpecHypRoute == Init /\ [][BuildHypotheses \/ RouteTest]_vars

\* guess_relation alone, on every drawn question.
SpecGuess == InitQuestion /\ [][GuessRelation]_vars

(***************************************************************************)
(* What the claims speak of, stated on the arguments themselves.           *)
(***************************************************************************)
Routed == "route_test" \in called
Suggested == "covariate_suggestion" \in called
Built == "build_hypotheses" \in called

\* The positions of the variables list that hold a column of the schema.
ValidIdx == { i \in 1..Len(variables) : variables[i] \in DOMAIN schema.columns }
NumValid == Cardinality(ValidIdx)

\* The first two valid variables (meaningful when NumValid >= 2).
FirstIdx == CHOOSE i \in ValidIdx : \A j \in ValidIdx : i <= j
SecondIdx == CHOOSE i \in ValidIdx \ {FirstIdx} : \A j \in ValidIdx \ {FirstIdx} : i <= j
XVar == variables[FirstIdx]
YVar == variables[SecondIdx]
XType == schema.columns[XVar].dtype
YType == schema.columns[YVar].dtype

\* A string built from parts names a value when the value is one of its parts.
Names(text, v) == \E i \in 1..Len(text) : text[i] = v

(***************************************************************************)
(* C1: route_test returns suggested_test "none", with empty notes, if and  *)
(* only if fewer than two entries of the variables list are columns of the *)
(* schema -- whatever the relation tag and the dtypes of the columns.      *)
(***************************************************************************)
C1_NoneIffFewerThanTwoValid ==
  Routed =>
    /\ (routed.suggested_test = "none") <=> (NumValid < 2)
    /\ (routed.suggested_test = "none") => (routed.notes = EmptyDict)

\* One valid variable, a datetime one, among three entries, under an
\* unrecognised relation tag: "none" wins over both later checks.
C1_Witness ==
  /\ Routed
  /\ routed.suggested_test = "none"
  /\ relation \notin RELATIONS
  /\ Len(variables) = 3
  /\ NumValid = 1
  /\ \E i \in ValidIdx : schema.columns[variables[i]].dtype = "datetime"

(***************************************************************************)
(* C2: for every relation tag, when at least two variables are schema      *)
(* columns and either of the first two such has dtype datetime, route_test *)
(* returns "unsupported_datetime" with notes {x_dtype, y_dtype}.           *)
(***************************************************************************)
C2_DatetimeUnsupported ==
  (Routed /\ NumValid >= 2 /\ (XType = "datetime" \/ YType = "datetime")) =>
    /\ routed.suggested_test = "unsupported_datetime"
    /\ routed.notes = [x_dtype |-> XType, y_dtype |-> YType]

\* Only the second valid variable is a datetime, the first valid variable is
\* not the first entry, and the relation tag is unrecognised.
C2_Witness ==
  /\ Routed
  /\ NumValid >= 2
  /\ FirstIdx > 1
  /\ XType = "category"
  /\ YType = "datetime"
  /\ relation \notin RELATIONS
  /\ routed.suggested_test = "unsupported_datetime"

(***************************************************************************)
(* C3, as stated: for every relation tag outside association,              *)
(* group_mean_diff and proportion_diff, route_test returns "unknown" for   *)
(* every variables list and every schema.                                  *)
(***************************************************************************)
C3_UnknownAlways ==
  (Routed /\ relation \notin RELATIONS) => routed.suggested_test = "unknown"

(***************************************************************************)
(* C3, amended: for such a tag route_test returns "unknown" exactly when   *)
(* at least two variables are schema columns and neither of the first two  *)
(* such is a datetime; with fewer than two it returns "none", and with a   *)
(* datetime among the two it returns "unsupported_datetime".               *)
(***************************************************************************)
C3_UnknownWhenRoutable ==
  (Routed /\ relation \notin RELATIONS) =>
    routed.suggested_test =
      IF NumValid < 2 THEN "none"
      ELSE IF XType = "datetime" \/ YType = "datetime" THEN "unsupported_datetime"
      ELSE "unknown"

C3_Witness ==
  /\ Routed
  /\ relation \notin RELATIONS
  /\ NumValid >= 2
  /\ XType = "int"
  /\ YType = "string"
  /\ routed.suggested_test = "unknown"

(***************************************************************************)
(* C4: _is_categorical(schema, col) is true exactly when the column's      *)
(* dtype is bool or category, or its dtype is string and its unique_frac   *)
(* is below 0.05; a column missing from the schema is not categorical.     *)
(***************************************************************************)
C4_CategoricalExact ==
  Routed =>
    \A col \in VarNames :
      _is_categorical(schema, col) <=>
        /\ col \in DOMAIN schema.columns
        /\ \/ schema.columns[col].dtype \in {"bool", "category"}
           \/ /\ schema.columns[col].dtype = "string"
              /\ schema.columns[col].unique_frac * LowCardInv < UFDen

(***************************************************************************)
(* C5: on a group-versus-metric branch (relation association or            *)
(* group_mean_diff, the first two valid variables one categorical and one  *)
(* numeric, in either order) the estimate is                               *)
(* k = max(1, round(unique_frac * max(rows, 1))) of the categorical        *)
(* variable, round being Python's (to nearest, a tie to the even integer); *)
(* notes.groups_est = k, and the tag is the two-sample one exactly when    *)
(* k <= 2 and the multi-group one exactly when k >= 3.                     *)
(***************************************************************************)
\* r is the rounding of num / UFDen: nearest, and even when num / UFDen is
\* halfway between two integers.
IsRounding(r, num) ==
  /\ 2 * (r * UFDen - num) <= UFDen
  /\ 2 * (num - r * UFDen) <= UFDen
  /\ (2 * (r * UFDen - num) = UFDen \/ 2 * (num - r * UFDen) = UFDen) => r % 2 = 0

GroupVar == IF _is_categorical(schema, XVar) THEN XVar ELSE YVar

GroupBranch ==
  /\ relation \in {"association", "group_mean_diff"}
  /\ NumValid >= 2
  /\ \/ _is_categorical(schema, XVar) /\ _is_numeric(schema, YVar)
     \/ _is_numeric(schema, XVar) /\ _is_categorical(schema, YVar)

C5_GroupCountBoundary ==
  (Routed /\ GroupBranch) =>
    LET num == schema.columns[GroupVar].unique_frac
                 * (IF schema.rows >= 1 THEN schema.rows ELSE 1)
        r == CHOOSE n \in 0..(MaxRows + 1) : IsRounding(n, num)
        k == IF r >= 1 THEN r ELSE 1
        two == IF relation = "association"
               THEN "mann_whitney_or_welch_t" ELSE "welch_t_or_mann_whitney"
        multi == IF relation = "association" THEN "kruskal_wallis" ELSE "anova"
    IN  /\ routed.notes = [groups_est |-> k]
        /\ (routed.suggested_test = two) <=> (k <= 2)
        /\ (routed.suggested_test = multi) <=> (k >= 3)
        /\ schema.rows = 0 => k = 1

\* unique_frac * rows = 2.5 for the group, passed second; the numeric
\* variable's own unique_frac would give another estimate.
C5_Witness ==
  /\ Routed
  /\ GroupBranch
  /\ relation = "group_mean_diff"
  /\ GroupVar = YVar
  /\ 2 * schema.columns[YVar].unique_frac * schema.rows = 5 * UFDen
  /\ schema.columns[XVar].unique_frac = UFDen
  /\ routed.suggested_test = "welch_t_or_mann_whitney"
  /\ routed.notes.groups_est = 2

(***************************************************************************)
(* C6: covariate_suggestion is "none" when the variables list has fewer    *)
(* than two entries; otherwise "ols" iff relation = association and        *)
(* variables[0] and variables[1] are both numeric; otherwise "logistic"    *)
(* iff relation is group_mean_diff or proportion_diff and variables[1] is  *)
(* categorical, whatever variables[0] is; "none" in every other case.      *)
(***************************************************************************)
C6_CovariateRule ==
  Suggested =>
    covar.suggestion =
      IF Len(variables) < 2 THEN "none"
      ELSE IF /\ relation = "association"
              /\ _is_numeric(schema, variables[1])
              /\ _is_numeric(schema, variables[2]) THEN "ols"
      ELSE IF /\ relation \in {"group_mean_diff", "proportion_diff"}
              /\ _is_categorical(schema, variables[2]) THEN "logistic"
      ELSE "none"

\* logistic on the second variable alone: the first is numeric, so the pair
\* is no pair of categorical variables.
C6_Witness ==
  /\ Suggested
  /\ Len(variables) >= 2
  /\ relation = "proportion_diff"
  /\ _is_numeric(schema, variables[1])
  /\ _is_categorical(schema, variables[2])
  /\ covar.suggestion = "logistic"

(***************************************************************************)
(* C7: a name that is no column of the schema is treated as not present:   *)
(* covariate_suggestion returns the suggestion it returns on the list with *)
(* the non-schema names removed, and returns "none" whenever route_test    *)
(* returns "none" for want of two valid variables.                         *)
(***************************************************************************)
C7_MissingTreatedAsAbsent ==
  (Routed /\ Suggested) =>
    /\ covar.suggestion =
         covariate_suggestion(relation, VarsOk(variables, schema), schema).suggestion
    /\ (routed.suggested_test = "none") => (covar.suggestion = "none")

(***************************************************************************)
(* C8, as stated: every decision route_test reaches with two valid         *)
(* variables x and y has a reason that names both x and y, and every       *)
(* decision that uses a group-count estimate k also states k.              *)
(***************************************************************************)
C8_ReasonNamesVariables ==
  (Routed /\ NumValid >= 2) =>
    /\ Names(routed.reason, XVar)
    /\ Names(routed.reason, YVar)
    /\ "groups_est" \in DOMAIN routed.notes =>
         Names(routed.reason, ToString(routed.notes.groups_est))

(***************************************************************************)
(* C8, amended: every decision of route_test that uses a group-count       *)
(* estimate k (kruskal_wallis, mann_whitney_or_welch_t, anova,             *)
(* welch_t_or_mann_whitney) has a reason that names both x and y and       *)
(* states k.                                                               *)
(***************************************************************************)
GroupTests ==
  {"kruskal_wallis", "mann_whitney_or_welch_t", "anova", "welch_t_or_mann_whitney"}

C8_GroupReasonNamesVariables ==
  (Routed /\ routed.suggested_test \in GroupTests) =>
    /\ NumValid >= 2
    /\ "groups_est" \in DOMAIN routed.notes
    /\ Names(routed.reason, XVar)
    /\ Names(routed.reason, YVar)
    /\ Names(routed.reason, ToString(routed.notes.groups_est))

C8_Witness ==
  /\ Routed
  /\ routed.suggested_test = "anova"
  /\ XVar # YVar
  /\ _is_numeric(schema, XVar)
  /\ routed.notes.groups_est = 3

(***************************************************************************)
(* C9: for relation group_mean_diff and a variables list whose first two   *)
(* entries are schema columns, whenever route_test selects anova or        *)
(* welch_t_or_mann_whitney, the variable build_hypotheses names as the     *)
(* grouping variable ("across groups of ...") is the one route_test used   *)
(* as the group, and the one it names as the metric ("mean of ...") is the *)
(* numeric one, in both argument orders.                                   *)
(***************************************************************************)
\* The part of a built string that follows the literal part lit.
NamedAfter(text, lit) ==
  text[(CHOOSE i \in 1..Len(text) : text[i] = lit) + 1]

C9_HypothesisMatchesRouting ==
  ( /\ Routed
    /\ Built
    /\ relation = "group_mean_diff"
    /\ Len(variables) >= 2
    /\ variables[1] \in DOMAIN schema.columns
    /\ variables[2] \in DOMAIN schema.columns
    /\ routed.suggested_test \in {"anova", "welch_t_or_mann_whitney"} ) =>
    /\ NamedAfter(hyp.H0, " is equal across groups of ")
         = NamedAfter(routed.reason, "group=")
    /\ _is_numeric(schema, NamedAfter(hyp.H0, "The mean of "))
    /\ NamedAfter(hyp.H1, " differs for at least one group of ")
         = NamedAfter(routed.reason, "group=")
    /\ _is_numeric(schema, NamedAfter(hyp.H1, "The mean of "))

(***************************************************************************)
(* C10: guess_relation tries the keyword groups in the order association,  *)
(* group-mean-difference, proportion/rate and returns on the first match:  *)
(* association whenever an association keyword occurs, group_mean_diff     *)
(* when none does but a difference keyword occurs, proportion_diff when    *)
(* only proportion keywords occur, and unknown if and only if no keyword   *)
(* of any group occurs.  A keyword occurs whatever the case of the         *)
(* question's letters.                                                     *)
(***************************************************************************)
Guessed == "guess_relation" \in called

\* c is the letter d (lower case) in either case.
SameLetter(c, d) ==
  \/ c = d
  \/ \E i \in 1..Len(UPPERCASE) : UPPERCASE[i] = c /\ LOWERCASE[i] = d

\* The keyword kw occurs in the question at some position, case ignored.
Occurs(kw) ==
  \E start \in 1..Len(question) :
    /\ start + Len(kw) - 1 <= Len(question)
    /\ \A j \in 1..Len(kw) : SameLetter(question[start + j - 1], kw[j])

OccursAny(keywords) == \E n \in 1..Len(keywords) : Occurs(keywords[n])

C10_KeywordPriority ==
  Guessed =>
    /\ OccursAny(ASSOCIATION_KEYWORDS) => guessed = "association"
    /\ (~OccursAny(ASSOCIATION_KEYWORDS) /\ OccursAny(DIFFERENCE_KEYWORDS))
         => guessed = "group_mean_diff"
    /\ ( /\ ~OccursAny(ASSOCIATION_KEYWORDS)
         /\ ~OccursAny(DIFFERENCE_KEYWORDS)
         /\ OccursAny(PROPORTION_KEYWORDS) ) => guessed = "proportion_diff"
    /\ (guessed = "unknown") <=>
         ( /\ ~OccursAny(ASSOCIATION_KEYWORDS)
           /\ ~OccursAny(DIFFERENCE_KEYWORDS)
           /\ ~OccursAny(PROPORTION_KEYWORDS) )

\* An upper-case association keyword after a difference keyword and a
\* proportion keyword: association still.
C10_Witness ==
  /\ Guessed
  /\ guessed = "association"
  /\ Occurs(<<"d", "i", "f", "f">>)
  /\ Occurs(<<"r", "a", "t", "e">>)
  /\ \E start \in 1..Len(question) :
       /\ start + 7 <= Len(question)
       /\ SubSeq(question, start, start + 7)
            = <<"C", "O", "R", "R", "E", "L", "A", "T">>
       /\ start > 1

(***************************************************************************)
(* C11: the test route_test selects does not depend on the order of the    *)
(* two variables: for every relation tag and schema and any two schema     *)
(* columns a and b, route_test(relation, [a, b], schema) and               *)
(* route_test(relation, [b, a], schema) return the same suggested_test     *)
(* and, when present, the same notes.groups_est.                           *)
(***************************************************************************)
\* The call is on two schema columns.
TwoColumns ==
  /\ Len(variables) = 2
  /\ variables[1] \in DOMAIN schema.columns
  /\ variables[2] \in DOMAIN schema.columns

\* What route_test returns on the same two variables in the other order.
Swapped == route_test(relation, <<variables[2], variables[1]>>, schema)

C11_OrderIndependent ==
  (Routed /\ TwoColumns) =>
    /\ routed.suggested_test = Swapped.suggested_test
    /\ ("groups_est" \in DOMAIN routed.notes) <=> ("groups_est" \in DOMAIN Swapped.notes)
    /\ "groups_est" \in DOMAIN routed.notes =>
         routed.notes.groups_est = Swapped.notes.groups_est

\* The group is passed second and gives k = 3; the numeric variable, passed
\* first, has a unique_frac that would give k = 1.
C11_Witness ==
  /\ Routed
  /\ TwoColumns
  /\ relation = "group_mean_diff"
  /\ _is_numeric(schema, variables[1])
  /\ _is_categorical(schema, variables[2])
  /\ schema.columns[variables[1]].unique_frac = 0
  /\ routed.suggested_test = "anova"
  /\ routed.notes.groups_est = 3

====
